---- MODULE Spec2Model ----
(***************************************************************************)
(* Ad eligibility and selection engine of bat-native-ads                   *)
(* (inline_content_ads::EligibleAds and the predictor utilities).          *)
(*                                                                         *)
(* A segment is a sequence of one-character strings, so that the parent    *)
(* of a segment is computed by scanning for the first "-".  An ad is       *)
(* identified by its creative_instance_id; its other fields are looked up  *)
(* in CreativeAds.                                                         *)
(*                                                                         *)
(* Spec is the engine serving requests.  PipelineSpec, PredictorSpec and   *)
(* SegmentsSpec apply the pipeline stages, the predictor functions and the *)
(* top-segment functions to arguments drawn from bounded sets (args) and   *)
(* keep what they return (result).  RequestsSpec is one engine with two    *)
(* GetForSegments requests in flight together (requests).                  *)
(***************************************************************************)
EXTENDS Integers, Sequences, FiniteSets, TLC

VARIABLES
  last_served_creative_ad_,  \* creative_instance_id of the last served ad
  seen_ads,                  \* Client state: creative instances already shown
  seen_advertisers,          \* Client state: advertisers already shown
  pc,                        \* position of the one request in flight
  entry,                     \* "segments" | "predictor" | "none"
  segments,                  \* GetForSegments: the caller's segments
  interest_segments,         \* GetFromAdPredictorScores arguments
  intent_segments,
  ad_events_success,         \* the success flag the GetAll callback received
  ad_events,                 \* captured by the GetAll callback
  history,                   \* captured by the GetBrowsingHistory callback
  calls,                     \* collaborator calls issued by the request, in order
  responses,                 \* creative-store responses processed, in order
  callbacks,                 \* invocations of the request's completion callback
  dcheck_ok,                 \* FALSE once a DCHECK of the request has failed
  args,                      \* arguments of the function applied on its own
  result,                    \* what the function returned, <<>> before it ran
  requests                   \* the requests in flight on one engine together

\* the state of the engine and of its request
engine_vars == <<last_served_creative_ad_, seen_ads, seen_advertisers, pc, entry,
                 segments, interest_segments, intent_segments, ad_events_success,
                 ad_events, history, calls, responses, callbacks, dcheck_ok>>

\* the state of a function applied on its own, outside any request
function_vars == <<args, result>>

vars == <<engine_vars, function_vars, requests>>

----------------------------------------------------------------------------
(* Bounds *)

\* longest ad list a creative-store response carries
MaxAds == 2
\* most creative instances the client remembers as seen
MaxSeen == 1
\* longest list of text-classification segments the model provides
MaxTextSegments == 4

(* Program constants *)

kHoursPerDay == 24
kTopTextClassificationSegmentCount == 3

----------------------------------------------------------------------------
(* Data *)

kUntargeted == <<"u">>

TechSoftware == <<"t", "-", "s">>
Tech == <<"t">>
FinanceBanking == <<"f", "-", "b">>
\* a segment with two separators
FinanceBankingLoans == <<"f", "-", "b", "-", "l">>

\* segment lists a caller passes to GetForSegments
SegmentLists ==
  { <<>>, <<TechSoftware>>, <<Tech>>, <<FinanceBanking>>, <<TechSoftware, Tech>> }

\* the creative instances of the catalog, in the order the store returns them
CatalogOrder == <<"", "a", "b", "c", "d">>

CreativeInstanceIds == { CatalogOrder[i] : i \in 1..Len(CatalogOrder) }

\* the fields of each creative ad that the engine reads
CreativeAds ==
  [ id \in CreativeInstanceIds |->
      CASE id = ""  -> [advertiser_id |-> "x", segment |-> TechSoftware,
                        priority |-> 1, ptr |-> 10, total_max |-> 1, anti_targeted |-> {}]
        [] id = "a" -> [advertiser_id |-> "y", segment |-> TechSoftware,
                        priority |-> 2, ptr |-> 10, total_max |-> 2, anti_targeted |-> {}]
        [] id = "b" -> [advertiser_id |-> "x", segment |-> Tech,
                        priority |-> 1, ptr |-> 5, total_max |-> 1, anti_targeted |-> {"site"}]
        [] id = "c" -> [advertiser_id |-> "y", segment |-> kUntargeted,
                        priority |-> 0, ptr |-> 10, total_max |-> 1, anti_targeted |-> {}]
        [] id = "d" -> [advertiser_id |-> "x", segment |-> kUntargeted,
                        priority |-> 1, ptr |-> 0, total_max |-> 1, anti_targeted |-> {}] ]

AdEvent(id, hours) ==
  [creative_instance_id |-> id, advertiser_id |-> CreativeAds[id].advertiser_id,
   hours_ago |-> hours]

\* ad-event histories the ad-event store can report
AdEventLists ==
  { <<>>, <<AdEvent("c", 2)>>, <<AdEvent("a", 30), AdEvent("a", 26)>> }

\* browsing histories the client can report
BrowsingHistoryLists == { <<>>, <<"site">> }

\* ads a caller can report as served
ServedAds == {"a"}

\* ads the client can record as seen
SeenAds == {"a", "b"}

\* the default-constructed CreativeAdInfo: its creative_instance_id is empty
CreativeAdInfo == ""

----------------------------------------------------------------------------
(* Sequence helpers *)

Range(s) == { s[i] : i \in 1..Len(s) }

Last(s) == s[Len(s)]

\* the subsequence of CatalogOrder made of the ids in S
InCatalogOrder(S) == SelectSeq(CatalogOrder, LAMBDA id : id \in S)

\* the ad lists of at most MaxAds ads drawn from the set S
AdLists(S) ==
  { InCatalogOrder(T) : T \in { U \in SUBSET S : Cardinality(U) <= MaxAds } }

----------------------------------------------------------------------------
(* Segment resolver *)

RECURSIVE GetParentSegment(_)
\* the part of a segment before its first "-"
GetParentSegment(segment) ==
  IF segment = <<>> \/ Head(segment) = "-"
  THEN <<>>
  ELSE <<Head(segment)>> \o GetParentSegment(Tail(segment))

\* GetParentSegments dropping the parents it has already returned
GetParentSegmentsDeduplicated(segs) ==
  LET parents == [i \in 1..Len(segs) |-> GetParentSegment(segs[i])]
      first == { i \in 1..Len(segs) : \A j \in 1..(i - 1) : parents[j] # parents[i] }
      F[i \in 0..Len(segs)] ==
        IF i = 0 THEN <<>>
        ELSE IF i \in first THEN Append(F[i - 1], parents[i]) ELSE F[i - 1]
  IN  F[Len(segs)]

GetParentSegments(segs) ==
  [i \in 1..Len(segs) |-> GetParentSegment(segs[i])]

----------------------------------------------------------------------------
(* Exclusion rules *)

\* number of ad events recorded for a creative instance
CountAdEvents(events, id) ==
  Cardinality({ i \in 1..Len(events) : events[i].creative_instance_id = id })

\* the per-ad lifetime cap and the anti-targeting rule
ShouldExcludeAd(id, events, browsing_history) ==
  \/ CountAdEvents(events, id) >= CreativeAds[id].total_max
  \/ Range(browsing_history) \cap CreativeAds[id].anti_targeted # {}

----------------------------------------------------------------------------
(* Eligibility pipeline *)

\* ShouldCapLastServedAd asking for more than two ads
ShouldCapLastServedAdAboveTwo(ads) == Len(ads) > 2

ShouldCapLastServedAd(ads) == Len(ads) # 1

\* drops the ads of advertisers already seen; when that drops every ad, the
\* seen memory is cleared and the full list is kept
FilterSeenAdvertisersAndRoundRobinIfNeeded(ads, seen) ==
  LET eligible_ads ==
        SelectSeq(ads, LAMBDA id : CreativeAds[id].advertiser_id \notin seen)
  IN  IF eligible_ads = <<>>
      THEN [ads |-> ads, seen |-> {}]
      ELSE [ads |-> eligible_ads, seen |-> seen]

\* the same policy for single creative instances
FilterSeenAdsAndRoundRobinIfNeeded(ads, seen) ==
  LET eligible_ads == SelectSeq(ads, LAMBDA id : id \notin seen)
  IN  IF eligible_ads = <<>>
      THEN [ads |-> ads, seen |-> {}]
      ELSE [ads |-> eligible_ads, seen |-> seen]

\* ApplyFrequencyCapping calling std::remove_if without the erase: the kept
\* ads move to the front and the tail keeps what it held
ApplyFrequencyCappingNoErase(ads, last_served_creative_ad, events, browsing_history) ==
  LET kept == SelectSeq(ads, LAMBDA id :
                ~ ( \/ ShouldExcludeAd(id, events, browsing_history)
                    \/ id = last_served_creative_ad ))
  IN  kept \o SubSeq(ads, Len(kept) + 1, Len(ads))

ApplyFrequencyCapping(ads, last_served_creative_ad, events, browsing_history) ==
  SelectSeq(ads, LAMBDA id :
    ~ ( \/ ShouldExcludeAd(id, events, browsing_history)
        \/ id = last_served_creative_ad ))

\* drops the ads throttled in this pass
PaceAds(ads, paced) == SelectSeq(ads, LAMBDA id : id \notin paced)

\* keeps the ads of the lowest priority value present
PrioritizeAds(ads) ==
  SelectSeq(ads, LAMBDA id :
    \A other \in Range(ads) : CreativeAds[id].priority <= CreativeAds[other].priority)

\* the last-served ad FilterIneligibleAds and GetEligibleAds cap against
LastServedAdToCap(ads, last) ==
  IF ShouldCapLastServedAd(ads) THEN last ELSE CreativeAdInfo

\* The result of the pipeline (ads), the client's seen memory after it, and
\* the list that entered the frequency-capping stage (deduped).
\* FilterIneligibleAds without the early return for an empty list
FilterIneligibleAdsWithoutEmptyTest(ads, events, browsing_history, last, seenAds, seenAdvertisers, paced) ==
  LET by_advertiser ==
        FilterSeenAdvertisersAndRoundRobinIfNeeded(ads, seenAdvertisers)
      by_ad == FilterSeenAdsAndRoundRobinIfNeeded(by_advertiser.ads, seenAds)
      capped == ApplyFrequencyCapping(by_ad.ads, LastServedAdToCap(ads, last),
                                      events, browsing_history)
  IN  [ads |-> PrioritizeAds(PaceAds(capped, paced)),
       deduped |-> by_ad.ads, should_cap |-> ShouldCapLastServedAd(ads),
       capped |-> capped,
       seen_ads |-> by_ad.seen, seen_advertisers |-> by_advertiser.seen]

FilterIneligibleAds(ads, events, browsing_history, last, seenAds, seenAdvertisers, paced) ==
  IF ads = <<>>
  THEN [ads |-> <<>>, deduped |-> <<>>, should_cap |-> FALSE, capped |-> <<>>,
        seen_ads |-> seenAds, seen_advertisers |-> seenAdvertisers]
  ELSE LET by_advertiser ==
             FilterSeenAdvertisersAndRoundRobinIfNeeded(ads, seenAdvertisers)
           by_ad == FilterSeenAdsAndRoundRobinIfNeeded(by_advertiser.ads, seenAds)
           capped == ApplyFrequencyCapping(by_ad.ads, LastServedAdToCap(ads, last),
                                           events, browsing_history)
       IN  [ads |-> PrioritizeAds(PaceAds(capped, paced)),
            deduped |-> by_ad.ads, should_cap |-> ShouldCapLastServedAd(ads),
            capped |-> capped,
            seen_ads |-> by_ad.seen, seen_advertisers |-> by_advertiser.seen]

----------------------------------------------------------------------------
(* Predictor and scorer *)

\* AdPredictorWeightIndex
kMatchesIntentChildSegment == 0
kMatchesIntentParentSegment == 1
kMatchesInterestChildSegment == 2
kMatchesInterestParentSegment == 3
kAdLastSeenInHours == 4
kAdvertiserLastSeenInHours == 5
kPriority == 6

\* weight vectors the feature provider can hold (slot i of the vector is
\* element i + 1 of the sequence)
AdPredictorWeights ==
  { <<1, 1, 1, 1, 1, 1, 1>>, <<0, 0, 0, 0, 0, 0, 0>>, <<2, 1, 1, 0, 0, 1, 0>>,
    <<1, 2, 0, 1, 2, 1, 2>> }

WeightAt(weights, index) == weights[index + 1]

\* Scores are kept as integers: a score s stands for s / ScoreUnit, which is
\* exact for the hours (k / 24), the priorities (1 and 2) and ptr in tenths.
PriorityUnit == 1 + 1
PtrUnit == 2 * 5
ScoreUnit == kHoursPerDay * PriorityUnit * PtrUnit

SetIntersection(a, b) == Range(a) \cap Range(b)

\* hours since the most recent ad event of the creative instance, as a
\* one-element set, or {} when there is none
GetLastSeenAdTime(events, id) ==
  LET hours == { events[i].hours_ago :
                   i \in { j \in 1..Len(events) : events[j].creative_instance_id = id } }
  IN  { h \in hours : \A other \in hours : h <= other }

GetLastSeenAdvertiserTime(events, id) ==
  LET hours == { events[i].hours_ago :
                   i \in { j \in 1..Len(events) :
                             events[j].advertiser_id = CreativeAds[id].advertiser_id } }
  IN  { h \in hours : \A other \in hours : h <= other }

\* one AdPredictorInfo per creative instance: the ad and the segments it targets
GroupEligibleAdsByCreativeInstanceId(eligible_ads) ==
  [ id \in Range(eligible_ads) |->
      [creative_ad |-> id, segments |-> <<CreativeAds[id].segment>>,
       does_match_intent_child_segments |-> FALSE,
       does_match_intent_parent_segments |-> FALSE,
       does_match_interest_child_segments |-> FALSE,
       does_match_interest_parent_segments |-> FALSE,
       ad_last_seen_hours_ago |-> 0,
       advertiser_last_seen_hours_ago |-> 0,
       score |-> 0] ]

\* ComputePredictorFeatures taking the parents of the intent segments for the
\* intent-parent flag
ComputePredictorFeaturesParentOfIntent(ad_predictor, events, interest, intent) ==
  LET last_seen_ad == GetLastSeenAdTime(events, ad_predictor.creative_ad)
      last_seen_advertiser == GetLastSeenAdvertiserTime(events, ad_predictor.creative_ad)
  IN  [ad_predictor EXCEPT
         !.does_match_intent_child_segments =
            SetIntersection(intent, ad_predictor.segments) # {},
         !.does_match_intent_parent_segments =
            SetIntersection(GetParentSegments(intent), ad_predictor.segments) # {},
         !.does_match_interest_child_segments =
            SetIntersection(interest, ad_predictor.segments) # {},
         !.does_match_interest_parent_segments =
            SetIntersection(GetParentSegments(interest), ad_predictor.segments) # {},
         !.ad_last_seen_hours_ago =
            IF last_seen_ad # {} THEN CHOOSE h \in last_seen_ad : TRUE ELSE 0,
         !.advertiser_last_seen_hours_ago =
            IF last_seen_advertiser # {}
            THEN CHOOSE h \in last_seen_advertiser : TRUE ELSE 0]

ComputePredictorFeatures(ad_predictor, events, interest, intent) ==
  LET last_seen_ad == GetLastSeenAdTime(events, ad_predictor.creative_ad)
      last_seen_advertiser == GetLastSeenAdvertiserTime(events, ad_predictor.creative_ad)
  IN  [ad_predictor EXCEPT
         !.does_match_intent_child_segments =
            SetIntersection(intent, ad_predictor.segments) # {},
         !.does_match_intent_parent_segments =
            SetIntersection(GetParentSegments(interest), ad_predictor.segments) # {},
         !.does_match_interest_child_segments =
            SetIntersection(interest, ad_predictor.segments) # {},
         !.does_match_interest_parent_segments =
            SetIntersection(GetParentSegments(interest), ad_predictor.segments) # {},
         !.ad_last_seen_hours_ago =
            IF last_seen_ad # {} THEN CHOOSE h \in last_seen_ad : TRUE ELSE 0,
         !.advertiser_last_seen_hours_ago =
            IF last_seen_advertiser # {}
            THEN CHOOSE h \in last_seen_advertiser : TRUE ELSE 0]

\* ComputePredictorScore adding the parent-match weight of the intent
\* category also when the child flag is true
ComputePredictorScoreAddingBoth(ad_predictor, weights) ==
  LET ad == CreativeAds[ad_predictor.creative_ad]
      full == kHoursPerDay * PriorityUnit
      intent_term ==
        (IF ad_predictor.does_match_intent_child_segments
         THEN WeightAt(weights, kMatchesIntentChildSegment) * full
         ELSE 0)
        + (IF ad_predictor.does_match_intent_parent_segments
           THEN WeightAt(weights, kMatchesIntentParentSegment) * full
           ELSE 0)
      interest_term ==
        IF ad_predictor.does_match_interest_child_segments
        THEN WeightAt(weights, kMatchesInterestChildSegment) * full
        ELSE IF ad_predictor.does_match_interest_parent_segments
        THEN WeightAt(weights, kMatchesInterestParentSegment) * full
        ELSE 0
      ad_seen_term ==
        IF ad_predictor.ad_last_seen_hours_ago <= kHoursPerDay
        THEN WeightAt(weights, kAdLastSeenInHours)
               * ad_predictor.ad_last_seen_hours_ago * PriorityUnit
        ELSE 0
      advertiser_seen_term ==
        IF ad_predictor.advertiser_last_seen_hours_ago <= kHoursPerDay
        THEN WeightAt(weights, kAdvertiserLastSeenInHours)
               * ad_predictor.advertiser_last_seen_hours_ago * PriorityUnit
        ELSE 0
      priority_term ==
        IF ad.priority > 0
        THEN (WeightAt(weights, kPriority) * full) \div ad.priority
        ELSE 0
  IN  (intent_term + interest_term + ad_seen_term + advertiser_seen_term
         + priority_term) * ad.ptr

\* ComputePredictorScore adding the advertiser recency term whatever the age
ComputePredictorScoreAnyAge(ad_predictor, weights) ==
  LET ad == CreativeAds[ad_predictor.creative_ad]
      full == kHoursPerDay * PriorityUnit
      intent_term ==
        IF ad_predictor.does_match_intent_child_segments
        THEN WeightAt(weights, kMatchesIntentChildSegment) * full
        ELSE IF ad_predictor.does_match_intent_parent_segments
        THEN WeightAt(weights, kMatchesIntentParentSegment) * full
        ELSE 0
      interest_term ==
        IF ad_predictor.does_match_interest_child_segments
        THEN WeightAt(weights, kMatchesInterestChildSegment) * full
        ELSE IF ad_predictor.does_match_interest_parent_segments
        THEN WeightAt(weights, kMatchesInterestParentSegment) * full
        ELSE 0
      ad_seen_term ==
        IF ad_predictor.ad_last_seen_hours_ago <= kHoursPerDay
        THEN WeightAt(weights, kAdLastSeenInHours)
               * ad_predictor.ad_last_seen_hours_ago * PriorityUnit
        ELSE 0
      advertiser_seen_term ==
        WeightAt(weights, kAdvertiserLastSeenInHours)
          * ad_predictor.advertiser_last_seen_hours_ago * PriorityUnit
      priority_term ==
        IF ad.priority > 0
        THEN (WeightAt(weights, kPriority) * full) \div ad.priority
        ELSE 0
  IN  (intent_term + interest_term + ad_seen_term + advertiser_seen_term
         + priority_term) * ad.ptr

\* ComputePredictorScore multiplying the priority weight by the priority
ComputePredictorScoreTimesPriority(ad_predictor, weights) ==
  LET ad == CreativeAds[ad_predictor.creative_ad]
      full == kHoursPerDay * PriorityUnit
      intent_term ==
        IF ad_predictor.does_match_intent_child_segments
        THEN WeightAt(weights, kMatchesIntentChildSegment) * full
        ELSE IF ad_predictor.does_match_intent_parent_segments
        THEN WeightAt(weights, kMatchesIntentParentSegment) * full
        ELSE 0
      interest_term ==
        IF ad_predictor.does_match_interest_child_segments
        THEN WeightAt(weights, kMatchesInterestChildSegment) * full
        ELSE IF ad_predictor.does_match_interest_parent_segments
        THEN WeightAt(weights, kMatchesInterestParentSegment) * full
        ELSE 0
      ad_seen_term ==
        IF ad_predictor.ad_last_seen_hours_ago <= kHoursPerDay
        THEN WeightAt(weights, kAdLastSeenInHours)
               * ad_predictor.ad_last_seen_hours_ago * PriorityUnit
        ELSE 0
      advertiser_seen_term ==
        IF ad_predictor.advertiser_last_seen_hours_ago <= kHoursPerDay
        THEN WeightAt(weights, kAdvertiserLastSeenInHours)
               * ad_predictor.advertiser_last_seen_hours_ago * PriorityUnit
        ELSE 0
      priority_term ==
        IF ad.priority > 0
        THEN (WeightAt(weights, kPriority) * full) * ad.priority
        ELSE 0
  IN  (intent_term + interest_term + ad_seen_term + advertiser_seen_term
         + priority_term) * ad.ptr

\* ComputePredictorScore leaving out the multiplication by ptr
ComputePredictorScoreWithoutPtr(ad_predictor, weights) ==
  LET ad == CreativeAds[ad_predictor.creative_ad]
      full == kHoursPerDay * PriorityUnit
      intent_term ==
        IF ad_predictor.does_match_intent_child_segments
        THEN WeightAt(weights, kMatchesIntentChildSegment) * full
        ELSE IF ad_predictor.does_match_intent_parent_segments
        THEN WeightAt(weights, kMatchesIntentParentSegment) * full
        ELSE 0
      interest_term ==
        IF ad_predictor.does_match_interest_child_segments
        THEN WeightAt(weights, kMatchesInterestChildSegment) * full
        ELSE IF ad_predictor.does_match_interest_parent_segments
        THEN WeightAt(weights, kMatchesInterestParentSegment) * full
        ELSE 0
      ad_seen_term ==
        IF ad_predictor.ad_last_seen_hours_ago <= kHoursPerDay
        THEN WeightAt(weights, kAdLastSeenInHours)
               * ad_predictor.ad_last_seen_hours_ago * PriorityUnit
        ELSE 0
      advertiser_seen_term ==
        IF ad_predictor.advertiser_last_seen_hours_ago <= kHoursPerDay
        THEN WeightAt(weights, kAdvertiserLastSeenInHours)
               * ad_predictor.advertiser_last_seen_hours_ago * PriorityUnit
        ELSE 0
      priority_term ==
        IF ad.priority > 0
        THEN (WeightAt(weights, kPriority) * full) \div ad.priority
        ELSE 0
  IN  (intent_term + interest_term + ad_seen_term + advertiser_seen_term
         + priority_term) * PtrUnit

\* the score in units of 1 / ScoreUnit
ComputePredictorScore(ad_predictor, weights) ==
  LET ad == CreativeAds[ad_predictor.creative_ad]
      full == kHoursPerDay * PriorityUnit
      intent_term ==
        IF ad_predictor.does_match_intent_child_segments
        THEN WeightAt(weights, kMatchesIntentChildSegment) * full
        ELSE IF ad_predictor.does_match_intent_parent_segments
        THEN WeightAt(weights, kMatchesIntentParentSegment) * full
        ELSE 0
      interest_term ==
        IF ad_predictor.does_match_interest_child_segments
        THEN WeightAt(weights, kMatchesInterestChildSegment) * full
        ELSE IF ad_predictor.does_match_interest_parent_segments
        THEN WeightAt(weights, kMatchesInterestParentSegment) * full
        ELSE 0
      ad_seen_term ==
        IF ad_predictor.ad_last_seen_hours_ago <= kHoursPerDay
        THEN WeightAt(weights, kAdLastSeenInHours)
               * ad_predictor.ad_last_seen_hours_ago * PriorityUnit
        ELSE 0
      advertiser_seen_term ==
        IF ad_predictor.advertiser_last_seen_hours_ago <= kHoursPerDay
        THEN WeightAt(weights, kAdvertiserLastSeenInHours)
               * ad_predictor.advertiser_last_seen_hours_ago * PriorityUnit
        ELSE 0
      priority_term ==
        IF ad.priority > 0
        THEN (WeightAt(weights, kPriority) * full) \div ad.priority
        ELSE 0
  IN  (intent_term + interest_term + ad_seen_term + advertiser_seen_term
         + priority_term) * ad.ptr

\* ComputePredictorFeaturesAndScores leaving out the insert of each scored ad
ComputePredictorFeaturesAndScoresNoInsert(ads, events, interest, intent, weights) ==
  [ id \in {} |-> ads[id] ]

ComputePredictorFeaturesAndScores(ads, events, interest, intent, weights) ==
  [ id \in DOMAIN ads |->
      LET mutable_ad_predictor ==
            ComputePredictorFeatures(ads[id], events, interest, intent)
      IN  [mutable_ad_predictor EXCEPT
             !.score = ComputePredictorScore(mutable_ad_predictor, weights)] ]

\* What a weighted random draw can return, as an optional ad (<<>> is none,
\* <<id>> an ad): an ad of positive score, or, when every score is zero, any
\* ad of the map; none only when the map is empty.
SampleFromAds(ads_with_features) ==
  LET positive == { id \in DOMAIN ads_with_features : ads_with_features[id].score > 0 }
  IN  IF DOMAIN ads_with_features = {} THEN { <<>> }
      ELSE IF positive # {} THEN { <<id>> : id \in positive }
      ELSE { <<id>> : id \in DOMAIN ads_with_features }

----------------------------------------------------------------------------
(* Collaborators *)

\* the catalog ads whose segment is one of the queried segments
MatchingAds(query) ==
  { id \in CreativeInstanceIds : CreativeAds[id].segment \in Range(query) }

\* the queried segments for which the response holds an ad
MatchedSegments(query, ads) ==
  SelectSeq(query, LAMBDA seg : \E id \in Range(ads) : CreativeAds[id].segment = seg)

\* what GetForSegmentsAndDimensions can answer to a query: on success some of
\* the matching ads, with either the queried segments or the matched ones;
\* on failure no ads
SegmentsAndDimensionsAnswers(query) ==
  { [success |-> TRUE, segments |-> m, ads |-> ads] :
      ads \in AdLists(MatchingAds(query)),
      m \in { query } \cup { MatchedSegments(query, a) : a \in AdLists(MatchingAds(query)) } }
  \cup { [success |-> FALSE, segments |-> query, ads |-> <<>>] }

\* what GetForDimensions can answer
DimensionsAnswers ==
  { [success |-> TRUE, ads |-> ads] : ads \in AdLists(CreativeInstanceIds) }
  \cup { [success |-> FALSE, ads |-> <<>>] }

Call(store, tier, segs) == [store |-> store, tier |-> tier, segments |-> segs]

Callback(was_allowed, ads) == [was_allowed |-> was_allowed, ads |-> ads]

----------------------------------------------------------------------------
(* State machine *)

\* no request is in flight
NoRequest ==
  /\ pc = "idle"
  /\ entry = "none"
  /\ segments = <<>>
  /\ interest_segments = <<>>
  /\ intent_segments = <<>>
  /\ ad_events_success = TRUE
  /\ ad_events = <<>>
  /\ history = <<>>
  /\ calls = <<>>
  /\ responses = <<>>
  /\ callbacks = <<>>
  /\ dcheck_ok = TRUE

\* the engine after construction
InitEngine ==
  /\ last_served_creative_ad_ = CreativeAdInfo
  /\ seen_ads = {}
  /\ seen_advertisers = {}
  /\ NoRequest

Init ==
  /\ InitEngine
  /\ args = <<>>
  /\ result = <<>>
  /\ requests = <<>>

SetLastServedAd(creative_ad) ==
  /\ last_served_creative_ad_' = creative_ad
  /\ UNCHANGED <<seen_ads, seen_advertisers, pc, entry, segments,
                 interest_segments, intent_segments, ad_events_success,
                 ad_events, history, calls, responses, callbacks, dcheck_ok>>

\* the client records a shown ad and its advertiser as seen
UpdateSeenAd(id) ==
  /\ pc = "idle"
  /\ Cardinality(seen_ads) < MaxSeen
  /\ seen_ads' = seen_ads \cup {id}
  /\ seen_advertisers' = seen_advertisers \cup {CreativeAds[id].advertiser_id}
  /\ UNCHANGED <<last_served_creative_ad_, pc, entry, segments,
                 interest_segments, intent_segments, ad_events_success,
                 ad_events, history, calls, responses, callbacks, dcheck_ok>>

GetForSegments(segs) ==
  /\ pc = "idle"
  /\ pc' = "ad_events"
  /\ entry' = "segments"
  /\ segments' = segs
  /\ calls' = <<Call("ad_events", "none", <<>>)>>
  /\ UNCHANGED <<last_served_creative_ad_, seen_ads, seen_advertisers,
                 interest_segments, intent_segments, ad_events_success,
                 ad_events, history, responses, callbacks, dcheck_ok>>

\* GetFromAdPredictorScores asking for the browsing history without fetching
\* the ad events
GetFromAdPredictorScoresSkippingAdEvents(interest, intent) ==
  /\ pc = "idle"
  /\ pc' = "history"
  /\ entry' = "predictor"
  /\ interest_segments' = interest
  /\ intent_segments' = intent
  /\ calls' = <<Call("history", "none", <<>>)>>
  /\ UNCHANGED <<last_served_creative_ad_, seen_ads, seen_advertisers, segments,
                 ad_events_success, ad_events, history, responses, callbacks,
                 dcheck_ok>>

GetFromAdPredictorScores(interest, intent) ==
  /\ pc = "idle"
  /\ pc' = "ad_events"
  /\ entry' = "predictor"
  /\ interest_segments' = interest
  /\ intent_segments' = intent
  /\ calls' = <<Call("ad_events", "none", <<>>)>>
  /\ UNCHANGED <<last_served_creative_ad_, seen_ads, seen_advertisers, segments,
                 ad_events_success, ad_events, history, responses, callbacks,
                 dcheck_ok>>

\* OnGetAllAdEvents without the return after the failure callback
OnGetAllAdEventsNoReturn(success, events) ==
  /\ pc = "ad_events"
  /\ ad_events_success' = success
  /\ callbacks' = IF success THEN callbacks ELSE Append(callbacks, Callback(FALSE, <<>>))
  /\ ad_events' = events
  /\ calls' = Append(calls, Call("history", "none", <<>>))
  /\ pc' = "history"
  /\ UNCHANGED <<last_served_creative_ad_, seen_ads, seen_advertisers, entry,
                 segments, interest_segments, intent_segments, history,
                 responses, dcheck_ok>>

\* the GetAll callback of either entry point
OnGetAllAdEvents(success, events) ==
  /\ pc = "ad_events"
  /\ ad_events_success' = success
  /\ IF ~success
     THEN /\ callbacks' = Append(callbacks, Callback(FALSE, <<>>))
          /\ pc' = "done"
          /\ UNCHANGED <<ad_events, calls>>
     ELSE /\ ad_events' = events
          /\ calls' = Append(calls, Call("history", "none", <<>>))
          /\ pc' = "history"
          /\ UNCHANGED callbacks
  /\ UNCHANGED <<last_served_creative_ad_, seen_ads, seen_advertisers, entry,
                 segments, interest_segments, intent_segments, history,
                 responses, dcheck_ok>>

\* OnGetBrowsingHistoryForSegments without the test for an empty segments list
OnGetBrowsingHistoryForSegmentsNoEmptyTest(browsing_history) ==
  /\ pc = "history"
  /\ entry = "segments"
  /\ history' = browsing_history
  /\ dcheck_ok' = (dcheck_ok /\ segments # <<>>)
  /\ calls' = Append(calls, Call("creative", "parent_child", segments))
  /\ pc' = "parent_child"
  /\ UNCHANGED <<last_served_creative_ad_, seen_ads, seen_advertisers, entry,
                 segments, interest_segments, intent_segments,
                 ad_events_success, ad_events, responses, callbacks>>

\* the GetBrowsingHistory callback of GetForSegments, with the entry of
\* GetForUntargeted or of GetForParentChildSegments
OnGetBrowsingHistoryForSegments(browsing_history) ==
  /\ pc = "history"
  /\ entry = "segments"
  /\ history' = browsing_history
  /\ IF segments = <<>>
     THEN /\ calls' = Append(calls, Call("creative", "untargeted", <<kUntargeted>>))
          /\ pc' = "untargeted"
          /\ UNCHANGED dcheck_ok
     ELSE /\ dcheck_ok' = (dcheck_ok /\ segments # <<>>)
          /\ calls' = Append(calls, Call("creative", "parent_child", segments))
          /\ pc' = "parent_child"
  /\ UNCHANGED <<last_served_creative_ad_, seen_ads, seen_advertisers, entry,
                 segments, interest_segments, intent_segments,
                 ad_events_success, ad_events, responses, callbacks>>

\* the GetBrowsingHistory callback of GetFromAdPredictorScores, with the
\* entry of GetEligibleAds
OnGetBrowsingHistoryForPredictor(browsing_history) ==
  /\ pc = "history"
  /\ entry = "predictor"
  /\ history' = browsing_history
  /\ calls' = Append(calls, Call("creative", "dimensions", <<>>))
  /\ pc' = "dimensions"
  /\ UNCHANGED <<last_served_creative_ad_, seen_ads, seen_advertisers, entry,
                 segments, interest_segments, intent_segments,
                 ad_events_success, ad_events, responses, callbacks, dcheck_ok>>

\* the record kept of a processed creative-store response
Response(tier, answer, filtered, matched) ==
  [tier |-> tier, success |-> answer.success, ads |-> answer.ads,
   segments |-> matched, last |-> last_served_creative_ad_,
   deduped |-> filtered.deduped, should_cap |-> filtered.should_cap,
   capped |-> filtered.capped,
   eligible_ads |-> filtered.ads]

\* the frame of the three creative-store callbacks of GetForSegments
UnchangedByTier ==
  UNCHANGED <<last_served_creative_ad_, entry, segments, interest_segments,
              intent_segments, ad_events_success, ad_events, history>>

\* GetForParentSegments, entered from the parent-child callback with the
\* segments that callback received
GetForParentSegments(segs) ==
  LET parent_segments == GetParentSegments(segs)
  IN  /\ dcheck_ok' = (dcheck_ok /\ segs # <<>>)
      /\ IF parent_segments = segs
         THEN /\ callbacks' = Append(callbacks, Callback(FALSE, <<>>))
              /\ pc' = "done"
              /\ UNCHANGED calls
         ELSE /\ calls' = Append(calls, Call("creative", "parent", parent_segments))
              /\ pc' = "parent"
              /\ UNCHANGED callbacks

\* the GetForSegmentsAndDimensions callback of GetForParentChildSegments
OnGetForParentChildSegments(answer, paced) ==
  /\ pc = "parent_child"
  /\ LET filtered == FilterIneligibleAds(answer.ads, ad_events, history,
                                         last_served_creative_ad_, seen_ads,
                                         seen_advertisers, paced)
     IN  /\ seen_ads' = filtered.seen_ads
         /\ seen_advertisers' = filtered.seen_advertisers
         /\ responses' = Append(responses,
                                Response("parent_child", answer, filtered, answer.segments))
         /\ IF filtered.ads = <<>>
            THEN GetForParentSegments(answer.segments)
            ELSE /\ callbacks' = Append(callbacks, Callback(TRUE, filtered.ads))
                 /\ pc' = "done"
                 /\ UNCHANGED <<calls, dcheck_ok>>
  /\ UnchangedByTier

\* OnGetForParentSegments with the emptiness test inverted
OnGetForParentSegmentsInverted(answer, paced) ==
  /\ pc = "parent"
  /\ LET filtered == FilterIneligibleAds(answer.ads, ad_events, history,
                                         last_served_creative_ad_, seen_ads,
                                         seen_advertisers, paced)
     IN  /\ seen_ads' = filtered.seen_ads
         /\ seen_advertisers' = filtered.seen_advertisers
         /\ responses' = Append(responses,
                                Response("parent", answer, filtered, answer.segments))
         /\ IF filtered.ads # <<>>
            THEN /\ calls' = Append(calls, Call("creative", "untargeted", <<kUntargeted>>))
                 /\ pc' = "untargeted"
                 /\ UNCHANGED callbacks
            ELSE /\ callbacks' = Append(callbacks, Callback(TRUE, filtered.ads))
                 /\ pc' = "done"
                 /\ UNCHANGED calls
  /\ UNCHANGED dcheck_ok
  /\ UnchangedByTier

\* the GetForSegmentsAndDimensions callback of GetForParentSegments, with
\* the entry of GetForUntargeted
OnGetForParentSegments(answer, paced) ==
  /\ pc = "parent"
  /\ LET filtered == FilterIneligibleAds(answer.ads, ad_events, history,
                                         last_served_creative_ad_, seen_ads,
                                         seen_advertisers, paced)
     IN  /\ seen_ads' = filtered.seen_ads
         /\ seen_advertisers' = filtered.seen_advertisers
         /\ responses' = Append(responses,
                                Response("parent", answer, filtered, answer.segments))
         /\ IF filtered.ads = <<>>
            THEN /\ calls' = Append(calls, Call("creative", "untargeted", <<kUntargeted>>))
                 /\ pc' = "untargeted"
                 /\ UNCHANGED callbacks
            ELSE /\ callbacks' = Append(callbacks, Callback(TRUE, filtered.ads))
                 /\ pc' = "done"
                 /\ UNCHANGED calls
  /\ UNCHANGED dcheck_ok
  /\ UnchangedByTier

\* OnGetForUntargeted recording the first ad it delivers as the last served
OnGetForUntargetedServing(answer, paced) ==
  /\ pc = "untargeted"
  /\ LET filtered == FilterIneligibleAds(answer.ads, ad_events, history,
                                         last_served_creative_ad_, seen_ads,
                                         seen_advertisers, paced)
     IN  /\ seen_ads' = filtered.seen_ads
         /\ seen_advertisers' = filtered.seen_advertisers
         /\ responses' = Append(responses,
                                Response("untargeted", answer, filtered, answer.segments))
         /\ callbacks' = Append(callbacks, Callback(TRUE, filtered.ads))
         /\ last_served_creative_ad_' =
              IF filtered.ads # <<>> THEN filtered.ads[1] ELSE last_served_creative_ad_
         /\ pc' = "done"
  /\ UNCHANGED <<calls, dcheck_ok, entry, segments, interest_segments,
                 intent_segments, ad_events_success, ad_events, history>>

\* the GetForSegmentsAndDimensions callback of GetForUntargeted
OnGetForUntargeted(answer, paced) ==
  /\ pc = "untargeted"
  /\ LET filtered == FilterIneligibleAds(answer.ads, ad_events, history,
                                         last_served_creative_ad_, seen_ads,
                                         seen_advertisers, paced)
     IN  /\ seen_ads' = filtered.seen_ads
         /\ seen_advertisers' = filtered.seen_advertisers
         /\ responses' = Append(responses,
                                Response("untargeted", answer, filtered, answer.segments))
         /\ callbacks' = Append(callbacks, Callback(TRUE, filtered.ads))
         /\ pc' = "done"
  /\ UNCHANGED <<calls, dcheck_ok>>
  /\ UnchangedByTier

\* GetEligibleAds capping against the last-served ad whatever the list size
EligibleAdsAlwaysCapped(ads) ==
  ApplyFrequencyCapping(ads, last_served_creative_ad_, ad_events, history)

\* the ads GetEligibleAds hands to ChooseAd
EligibleAdsOfGetEligibleAds(ads) ==
  ApplyFrequencyCapping(ads, LastServedAdToCap(ads, last_served_creative_ad_),
                        ad_events, history)

\* the optional ads ChooseAd can pass to the callback
ChooseAd(eligible_ads, weights) ==
  SampleFromAds(
    ComputePredictorFeaturesAndScores(
      GroupEligibleAdsByCreativeInstanceId(eligible_ads), ad_events,
      interest_segments, intent_segments, weights))

\* the GetForDimensions callback of GetEligibleAds, with ChooseAd
OnGetForDimensions(answer, weights) ==
  /\ pc = "dimensions"
  /\ LET eligible_ads == EligibleAdsOfGetEligibleAds(answer.ads)
         unfiltered == [ads |-> <<>>, deduped |-> answer.ads, should_cap |-> FALSE,
                        capped |-> <<>>]
         kept == [ads |-> eligible_ads, deduped |-> answer.ads,
                  should_cap |-> ShouldCapLastServedAd(answer.ads),
                  capped |-> eligible_ads]
     IN  IF ~answer.success
         THEN /\ callbacks' = Append(callbacks, Callback(FALSE, <<>>))
              /\ responses' = Append(responses,
                                     Response("dimensions", answer, unfiltered, <<>>))
         ELSE IF answer.ads = <<>>
         THEN /\ callbacks' = Append(callbacks, Callback(TRUE, <<>>))
              /\ responses' = Append(responses,
                                     Response("dimensions", answer, unfiltered, <<>>))
         ELSE IF eligible_ads = <<>>
         THEN /\ callbacks' = Append(callbacks, Callback(TRUE, <<>>))
              /\ responses' = Append(responses,
                                     Response("dimensions", answer, kept, <<>>))
         ELSE /\ \E ad \in ChooseAd(eligible_ads, weights) :
                   callbacks' = Append(callbacks, Callback(TRUE, ad))
              /\ responses' = Append(responses,
                                     Response("dimensions", answer, kept, <<>>))
  /\ pc' = "done"
  /\ UNCHANGED <<last_served_creative_ad_, seen_ads, seen_advertisers, entry,
                 segments, interest_segments, intent_segments,
                 ad_events_success, ad_events, history, calls, dcheck_ok>>

\* the request is over and the engine takes the next one
Finish ==
  /\ pc = "done"
  /\ pc' = "idle"
  /\ entry' = "none"
  /\ segments' = <<>>
  /\ interest_segments' = <<>>
  /\ intent_segments' = <<>>
  /\ ad_events_success' = TRUE
  /\ ad_events' = <<>>
  /\ history' = <<>>
  /\ calls' = <<>>
  /\ responses' = <<>>
  /\ callbacks' = <<>>
  /\ dcheck_ok' = TRUE
  /\ UNCHANGED <<last_served_creative_ad_, seen_ads, seen_advertisers>>

\* interest and intent segments a caller passes to GetFromAdPredictorScores
PredictorSegmentLists ==
  { <<<<>>, <<>>>>, <<<<TechSoftware>>, <<>>>>, <<<<>>, <<TechSoftware>>>>,
    <<<<Tech>>, <<TechSoftware>>>> }

\* the answers the creative store can give to the query in flight
PendingAnswers ==
  IF calls = <<>> THEN {} ELSE SegmentsAndDimensionsAnswers(Last(calls).segments)

Next ==
  \/ /\ \E creative_ad \in ServedAds : SetLastServedAd(creative_ad)
     /\ UNCHANGED <<function_vars, requests>>
  \/ /\ \E id \in SeenAds : UpdateSeenAd(id)
     /\ UNCHANGED <<function_vars, requests>>
  \/ /\ \E segs \in SegmentLists : GetForSegments(segs)
     /\ UNCHANGED <<function_vars, requests>>
  \/ /\ \E lists \in PredictorSegmentLists :
          GetFromAdPredictorScores(lists[1], lists[2])
     /\ UNCHANGED <<function_vars, requests>>
  \/ /\ \E success \in BOOLEAN, events \in AdEventLists :
          OnGetAllAdEvents(success, events)
     /\ UNCHANGED <<function_vars, requests>>
  \/ /\ \E browsing_history \in BrowsingHistoryLists :
          OnGetBrowsingHistoryForSegments(browsing_history)
     /\ UNCHANGED <<function_vars, requests>>
  \/ /\ \E browsing_history \in BrowsingHistoryLists :
          OnGetBrowsingHistoryForPredictor(browsing_history)
     /\ UNCHANGED <<function_vars, requests>>
  \/ /\ \E answer \in PendingAnswers : \E paced \in SUBSET Range(answer.ads) :
          OnGetForParentChildSegments(answer, paced)
     /\ UNCHANGED <<function_vars, requests>>
  \/ /\ \E answer \in PendingAnswers : \E paced \in SUBSET Range(answer.ads) :
          OnGetForParentSegments(answer, paced)
     /\ UNCHANGED <<function_vars, requests>>
  \/ /\ \E answer \in PendingAnswers : \E paced \in SUBSET Range(answer.ads) :
          OnGetForUntargeted(answer, paced)
     /\ UNCHANGED <<function_vars, requests>>
  \/ /\ \E answer \in DimensionsAnswers, weights \in AdPredictorWeights :
          OnGetForDimensions(answer, weights)
     /\ UNCHANGED <<function_vars, requests>>
  \/ /\ Finish
     /\ UNCHANGED <<function_vars, requests>>

Spec == Init /\ [][Next]_vars

----------------------------------------------------------------------------
(* Top segments *)

\* the segment is one the user marked to no longer receive
ShouldFilterSegment(segment, filtered_segments) == segment \in filtered_segments

RECURSIVE FilterSegmentsFrom(_, _, _, _)
\* the loop of FilterSegments over the segments not visited yet, entered with
\* the number of segments kept so far
FilterSegmentsFrom(segs, count, max_count, filtered_segments) ==
  IF segs = <<>> THEN <<>>
  ELSE IF ShouldFilterSegment(Head(segs), filtered_segments)
  THEN FilterSegmentsFrom(Tail(segs), count, max_count, filtered_segments)
  ELSE IF count + 1 = max_count
  THEN <<Head(segs)>>
  ELSE <<Head(segs)>>
         \o FilterSegmentsFrom(Tail(segs), count + 1, max_count, filtered_segments)

FilterSegments(segs, max_count, filtered_segments) ==
  FilterSegmentsFrom(segs, 0, max_count, filtered_segments)

\* GetTopSegments filtering the concatenation of the three lists
GetTopSegmentsFilteringAll(segments_info, for_parent, filtered_segments) ==
  LET text_classification_segments ==
        IF for_parent
        THEN segments_info.text_classification_segments
        ELSE GetParentSegments(segments_info.text_classification_segments)
  IN  FilterSegments(text_classification_segments
                       \o segments_info.epsilon_greedy_bandit_segments
                       \o segments_info.purchase_intent_segments,
                     kTopTextClassificationSegmentCount, filtered_segments)

GetTopSegments(segments_info, for_parent, filtered_segments) ==
  LET text_classification_segments ==
        IF for_parent
        THEN segments_info.text_classification_segments
        ELSE GetParentSegments(segments_info.text_classification_segments)
      filtered_text_classification_segments ==
        FilterSegments(text_classification_segments,
                       kTopTextClassificationSegmentCount, filtered_segments)
  IN  filtered_text_classification_segments
        \o segments_info.epsilon_greedy_bandit_segments
        \o segments_info.purchase_intent_segments

GetTopParentChildSegments(segments_info, filtered_segments) ==
  GetTopSegments(segments_info, FALSE, filtered_segments)

GetTopParentSegments(segments_info, filtered_segments) ==
  GetTopSegments(segments_info, TRUE, filtered_segments)

\* the sequences of at most n elements of S
SeqsUpTo(S, n) == UNION { [1..k -> S] : k \in 0..n }

\* the SegmentsInfo values the three models can provide, with the segments
\* the user filtered
SegmentsArgs ==
  { [segments |-> [text_classification_segments |-> text,
                   epsilon_greedy_bandit_segments |-> bandit,
                   purchase_intent_segments |-> intent],
     filtered_segments |-> filtered] :
      text \in SeqsUpTo({TechSoftware, Tech, FinanceBanking, FinanceBankingLoans},
                        MaxTextSegments),
      bandit \in { <<>>, <<FinanceBanking>> },
      intent \in { <<>>, <<TechSoftware, Tech>> },
      filtered \in { {}, {Tech}, {TechSoftware} } }

InitSegments ==
  /\ InitEngine
  /\ args \in SegmentsArgs
  /\ result = <<>>
  /\ requests = <<>>

CallGetTopParentChildSegments ==
  /\ result = <<>>
  /\ result' = <<[function |-> "GetTopParentChildSegments",
                  returned |-> GetTopParentChildSegments(args.segments,
                                                         args.filtered_segments)]>>
  /\ UNCHANGED <<engine_vars, args, requests>>

CallGetTopParentSegments ==
  /\ result = <<>>
  /\ result' = <<[function |-> "GetTopParentSegments",
                  returned |-> GetTopParentSegments(args.segments,
                                                    args.filtered_segments)]>>
  /\ UNCHANGED <<engine_vars, args, requests>>

\* GetParentSegments(text_classification_segments)
CallGetParentSegments ==
  /\ result = <<>>
  /\ result' = <<[function |-> "GetParentSegments",
                  returned |->
                    GetParentSegments(args.segments.text_classification_segments)]>>
  /\ UNCHANGED <<engine_vars, args, requests>>

\* the values of max_count FilterSegments is applied with
MaxCounts == 0..kTopTextClassificationSegmentCount

\* FilterSegments(text_classification_segments, max_count)
CallFilterSegments(max_count) ==
  /\ result = <<>>
  /\ result' = <<[function |-> "FilterSegments", max_count |-> max_count,
                  returned |->
                    FilterSegments(args.segments.text_classification_segments,
                                   max_count, args.filtered_segments)]>>
  /\ UNCHANGED <<engine_vars, args, requests>>

NextSegments ==
  \/ CallGetTopParentChildSegments
  \/ CallGetTopParentSegments
  \/ CallGetParentSegments
  \/ \E max_count \in MaxCounts : CallFilterSegments(max_count)

SegmentsSpec == InitSegments /\ [][NextSegments]_vars

----------------------------------------------------------------------------
(* The predictor applied on its own *)

\* interest and intent segments of the user
UserSegmentLists ==
  { <<>>, <<TechSoftware>>, <<Tech>>, <<FinanceBanking>>,
    <<TechSoftware, FinanceBanking>> }

\* hours since an ad or an advertiser was last seen
HoursAgo == { 0, 2, kHoursPerDay, kHoursPerDay + 1 }

\* the arguments of ComputePredictorFeatures: an ad as
\* GroupEligibleAdsByCreativeInstanceId leaves it, the ad events and the
\* user's segments
FeaturesArgs ==
  { [function |-> "ComputePredictorFeatures",
     ad_predictor |-> GroupEligibleAdsByCreativeInstanceId(<<id>>)[id],
     ad_events |-> events, interest_segments |-> interest,
     intent_segments |-> intent] :
      id \in CreativeInstanceIds, events \in AdEventLists,
      interest \in UserSegmentLists, intent \in UserSegmentLists }

\* the arguments of ComputePredictorScore: an ad with any features, and the
\* weights of the feature provider
ScoreArgs ==
  { [function |-> "ComputePredictorScore",
     ad_predictor |->
       [creative_ad |-> id, segments |-> <<CreativeAds[id].segment>>,
        does_match_intent_child_segments |-> flags[1],
        does_match_intent_parent_segments |-> flags[2],
        does_match_interest_child_segments |-> flags[3],
        does_match_interest_parent_segments |-> flags[4],
        ad_last_seen_hours_ago |-> ad_hours,
        advertiser_last_seen_hours_ago |-> advertiser_hours,
        score |-> 0],
     weights |-> weights] :
      id \in CreativeInstanceIds, flags \in [1..4 -> BOOLEAN],
      ad_hours \in HoursAgo, advertiser_hours \in HoursAgo,
      weights \in AdPredictorWeights }

InitPredictor ==
  /\ InitEngine
  /\ args \in FeaturesArgs \cup ScoreArgs
  /\ result = <<>>
  /\ requests = <<>>

CallComputePredictorFeatures ==
  /\ result = <<>>
  /\ args.function = "ComputePredictorFeatures"
  /\ result' = <<ComputePredictorFeatures(args.ad_predictor, args.ad_events,
                                          args.interest_segments,
                                          args.intent_segments)>>
  /\ UNCHANGED <<engine_vars, args, requests>>

CallComputePredictorScore ==
  /\ result = <<>>
  /\ args.function = "ComputePredictorScore"
  /\ result' = <<ComputePredictorScore(args.ad_predictor, args.weights)>>
  /\ UNCHANGED <<engine_vars, args, requests>>

NextPredictor ==
  \/ CallComputePredictorFeatures
  \/ CallComputePredictorScore

PredictorSpec == InitPredictor /\ [][NextPredictor]_vars

----------------------------------------------------------------------------
(* The eligibility pipeline applied on its own *)

\* what the client can remember as seen
SeenStates ==
  { [seen_ads |-> sa, seen_advertisers |-> sv] :
      sa \in { S \in SUBSET SeenAds : Cardinality(S) <= MaxSeen },
      sv \in SUBSET { CreativeAds[id].advertiser_id : id \in SeenAds } }

\* the arguments of FilterIneligibleAds and ApplyFrequencyCapping, and the
\* ads that pacing throttles
PipelineArgs ==
  { [ads |-> ads, ad_events |-> events, browsing_history |-> browsing_history,
     paced |-> paced] :
      ads \in AdLists(CreativeInstanceIds), events \in AdEventLists,
      browsing_history \in BrowsingHistoryLists, paced \in SUBSET CreativeInstanceIds }

\* an engine with any last-served ad and any seen memory, about to filter
InitPipeline ==
  /\ NoRequest
  /\ last_served_creative_ad_ \in {CreativeAdInfo} \cup ServedAds
  /\ \E seen \in SeenStates :
       /\ seen_ads = seen.seen_ads
       /\ seen_advertisers = seen.seen_advertisers
  /\ args \in { a \in PipelineArgs : a.paced \subseteq Range(a.ads) }
  /\ result = <<>>
  /\ requests = <<>>

\* one call of a pipeline function: its name, the list it was given and the
\* list it returned
Applied(function, ads, returned) ==
  [function |-> function, ads |-> ads, returned |-> returned]

\* FilterIneligibleAds(ads), and then FilterIneligibleAds of what it returned
CallFilterIneligibleAds ==
  /\ Len(result) < 2
  /\ \A i \in 1..Len(result) : result[i].function = "FilterIneligibleAds"
  /\ LET ads == IF result = <<>> THEN args.ads ELSE Last(result).returned
         filtered == FilterIneligibleAds(ads, args.ad_events, args.browsing_history,
                                         last_served_creative_ad_, seen_ads,
                                         seen_advertisers, args.paced)
     IN  /\ seen_ads' = filtered.seen_ads
         /\ seen_advertisers' = filtered.seen_advertisers
         /\ result' = Append(result, Applied("FilterIneligibleAds", ads, filtered.ads))
  /\ UNCHANGED <<last_served_creative_ad_, pc, entry, segments, interest_segments,
                 intent_segments, ad_events_success, ad_events, history, calls,
                 responses, callbacks, dcheck_ok, args, requests>>

\* ApplyFrequencyCapping(ads, last_served_creative_ad_, ad_events, browsing_history)
CallApplyFrequencyCapping ==
  /\ result = <<>>
  /\ result' = <<Applied("ApplyFrequencyCapping", args.ads,
                         ApplyFrequencyCapping(args.ads, last_served_creative_ad_,
                                               args.ad_events, args.browsing_history))>>
  /\ UNCHANGED <<engine_vars, args, requests>>

NextPipeline ==
  \/ CallFilterIneligibleAds
  \/ CallApplyFrequencyCapping

PipelineSpec == InitPipeline /\ [][NextPipeline]_vars

----------------------------------------------------------------------------
(* Requests in flight together on one engine *)

\* the requests issued on the engine
RequestIds == 1..2

\* a request that has not been issued
IdleRequest ==
  [pc |-> "idle", segments |-> <<>>, last_at_call |-> CreativeAdInfo,
   seen_at_call |-> [seen_ads |-> {}, seen_advertisers |-> {}],
   ad_events |-> <<>>, history |-> <<>>, query |-> <<>>,
   responses |-> <<>>, callbacks |-> <<>>]

\* what the stores report to every request: the ad events and the browsing
\* history
StoreArgs ==
  { [ad_events |-> events, browsing_history |-> browsing_history] :
      events \in AdEventLists, browsing_history \in BrowsingHistoryLists }

\* the creative store answers a query with the matching ads of the catalog
StoreAnswer(query) ==
  [success |-> TRUE, segments |-> query, ads |-> InCatalogOrder(MatchingAds(query))]

\* an engine with any last-served ad and any seen memory, and no request yet
InitRequests ==
  /\ NoRequest
  /\ last_served_creative_ad_ \in {CreativeAdInfo} \cup ServedAds
  /\ \E seen \in SeenStates :
       /\ seen_ads = seen.seen_ads
       /\ seen_advertisers = seen.seen_advertisers
  /\ args \in StoreArgs
  /\ result = <<>>
  /\ requests = [i \in RequestIds |-> IdleRequest]

\* the frame of a step of one request that leaves the engine alone
UnchangedByRequest ==
  UNCHANGED <<last_served_creative_ad_, seen_ads, seen_advertisers, pc, entry,
              segments, interest_segments, intent_segments, ad_events_success,
              ad_events, history, calls, responses, callbacks, dcheck_ok,
              args, result>>

\* the frame of a creative-store callback of one request: it writes the
\* client's seen memory
UnchangedByRequestTier ==
  UNCHANGED <<last_served_creative_ad_, pc, entry, segments, interest_segments,
              intent_segments, ad_events_success, ad_events, history, calls,
              responses, callbacks, dcheck_ok, args, result>>

\* SetLastServedAd while requests are in flight
SetLastServedAdInFlight(creative_ad) ==
  /\ SetLastServedAd(creative_ad)
  /\ UNCHANGED <<function_vars, requests>>

\* GetForSegments of request i; the request remembers the engine state it
\* was issued in
RequestGetForSegments(i, segs) ==
  /\ requests[i].pc = "idle"
  /\ requests' = [requests EXCEPT ![i] =
       [@ EXCEPT !.pc = "ad_events", !.segments = segs,
                 !.last_at_call = last_served_creative_ad_,
                 !.seen_at_call = [seen_ads |-> seen_ads,
                                   seen_advertisers |-> seen_advertisers]]]
  /\ UnchangedByRequest

\* the GetAll callback of request i
RequestOnGetAllAdEvents(i) ==
  /\ requests[i].pc = "ad_events"
  /\ requests' = [requests EXCEPT ![i] =
       [@ EXCEPT !.pc = "history", !.ad_events = args.ad_events]]
  /\ UnchangedByRequest

\* the GetBrowsingHistory callback of request i
RequestOnGetBrowsingHistory(i) ==
  /\ requests[i].pc = "history"
  /\ requests' = [requests EXCEPT ![i] =
       IF requests[i].segments = <<>>
       THEN [@ EXCEPT !.pc = "untargeted", !.history = args.browsing_history,
                      !.query = <<kUntargeted>>]
       ELSE [@ EXCEPT !.pc = "parent_child", !.history = args.browsing_history,
                      !.query = requests[i].segments]]
  /\ UnchangedByRequest

\* FilterIneligibleAds in a creative-store callback of request i, capping
\* against the last-served ad the request was issued with
RequestFilterIneligibleAdsAtCall(i, ads) ==
  FilterIneligibleAds(ads, requests[i].ad_events, requests[i].history,
                      requests[i].last_at_call, seen_ads, seen_advertisers, {})

\* FilterIneligibleAds in a creative-store callback of request i: the
\* captured ad events and history, the engine's last-served ad and the
\* client's seen memory as they are when the callback runs
RequestFilterIneligibleAds(i, ads) ==
  FilterIneligibleAds(ads, requests[i].ad_events, requests[i].history,
                      last_served_creative_ad_, seen_ads, seen_advertisers, {})

\* the record request i keeps of a processed creative-store response, with
\* the engine state the callback ran in
RequestResponse(tier, answer, filtered) ==
  [tier |-> tier, ads |-> answer.ads, last |-> last_served_creative_ad_,
   seen_ads |-> seen_ads, seen_advertisers |-> seen_advertisers,
   deduped |-> filtered.deduped, capped |-> filtered.capped,
   eligible_ads |-> filtered.ads]

\* the callback of GetForParentChildSegments of request i, with the entry of
\* GetForParentSegments
RequestOnGetForParentChildSegments(i) ==
  /\ requests[i].pc = "parent_child"
  /\ LET answer == StoreAnswer(requests[i].query)
         filtered == RequestFilterIneligibleAds(i, answer.ads)
         parent_segments == GetParentSegments(answer.segments)
         response == RequestResponse("parent_child", answer, filtered)
     IN  /\ seen_ads' = filtered.seen_ads
         /\ seen_advertisers' = filtered.seen_advertisers
         /\ requests' = [requests EXCEPT ![i] =
              IF filtered.ads # <<>>
              THEN [@ EXCEPT !.pc = "done",
                             !.responses = Append(@, response),
                             !.callbacks = Append(@, Callback(TRUE, filtered.ads))]
              ELSE IF parent_segments = answer.segments
              THEN [@ EXCEPT !.pc = "done",
                             !.responses = Append(@, response),
                             !.callbacks = Append(@, Callback(FALSE, <<>>))]
              ELSE [@ EXCEPT !.pc = "parent", !.query = parent_segments,
                             !.responses = Append(@, response)]]
  /\ UnchangedByRequestTier

\* the callback of GetForParentSegments of request i, with the entry of
\* GetForUntargeted
RequestOnGetForParentSegments(i) ==
  /\ requests[i].pc = "parent"
  /\ LET answer == StoreAnswer(requests[i].query)
         filtered == RequestFilterIneligibleAds(i, answer.ads)
         response == RequestResponse("parent", answer, filtered)
     IN  /\ seen_ads' = filtered.seen_ads
         /\ seen_advertisers' = filtered.seen_advertisers
         /\ requests' = [requests EXCEPT ![i] =
              IF filtered.ads # <<>>
              THEN [@ EXCEPT !.pc = "done",
                             !.responses = Append(@, response),
                             !.callbacks = Append(@, Callback(TRUE, filtered.ads))]
              ELSE [@ EXCEPT !.pc = "untargeted", !.query = <<kUntargeted>>,
                             !.responses = Append(@, response)]]
  /\ UnchangedByRequestTier

\* the callback of GetForUntargeted of request i
RequestOnGetForUntargeted(i) ==
  /\ requests[i].pc = "untargeted"
  /\ LET answer == StoreAnswer(requests[i].query)
         filtered == RequestFilterIneligibleAds(i, answer.ads)
         response == RequestResponse("untargeted", answer, filtered)
     IN  /\ seen_ads' = filtered.seen_ads
         /\ seen_advertisers' = filtered.seen_advertisers
         /\ requests' = [requests EXCEPT ![i] =
              [@ EXCEPT !.pc = "done",
                        !.responses = Append(@, response),
                        !.callbacks = Append(@, Callback(TRUE, filtered.ads))]]
  /\ UnchangedByRequestTier

NextRequests ==
  \/ \E creative_ad \in ServedAds : SetLastServedAdInFlight(creative_ad)
  \/ \E i \in RequestIds, segs \in SegmentLists : RequestGetForSegments(i, segs)
  \/ \E i \in RequestIds : RequestOnGetAllAdEvents(i)
  \/ \E i \in RequestIds : RequestOnGetBrowsingHistory(i)
  \/ \E i \in RequestIds : RequestOnGetForParentChildSegments(i)
  \/ \E i \in RequestIds : RequestOnGetForParentSegments(i)
  \/ \E i \in RequestIds : RequestOnGetForUntargeted(i)

RequestsSpec == InitRequests /\ [][NextRequests]_vars

\* the callback a GetForSegments request receives when it runs with no other
\* request on the engine, from the engine state it is issued in
GetForSegmentsAlone(segs, last, seen, events, browsing_history) ==
  LET Filtered(query, seen_now) ==
        FilterIneligibleAds(StoreAnswer(query).ads, events, browsing_history,
                            last, seen_now.seen_ads, seen_now.seen_advertisers, {})
      Untargeted(seen_now) ==
        Callback(TRUE, Filtered(<<kUntargeted>>, seen_now).ads)
      Parent(matched, seen_now) ==
        LET parent_segments == GetParentSegments(matched)
            filtered == Filtered(parent_segments, seen_now)
        IN  IF parent_segments = matched
            THEN Callback(FALSE, <<>>)
            ELSE IF filtered.ads # <<>>
            THEN Callback(TRUE, filtered.ads)
            ELSE Untargeted([seen_ads |-> filtered.seen_ads,
                             seen_advertisers |-> filtered.seen_advertisers])
      ParentChild ==
        LET filtered == Filtered(segs, seen)
        IN  IF filtered.ads # <<>>
            THEN Callback(TRUE, filtered.ads)
            ELSE Parent(StoreAnswer(segs).segments,
                        [seen_ads |-> filtered.seen_ads,
                         seen_advertisers |-> filtered.seen_advertisers])
  IN  IF segs = <<>> THEN Untargeted(seen) ELSE ParentChild

----------------------------------------------------------------------------
(* Properties *)

TierOrder == <<"parent_child", "parent", "untargeted">>

\* the creative-store queries of the request, in the order issued
CreativeCalls == SelectSeq(calls, LAMBDA c : c.store = "creative")

AllResponses(P(_)) == \A i \in 1..Len(responses) : P(responses[i])

C2_NoEligibleAdsIsAllowed ==
  ( /\ pc = "done"
    /\ ad_events_success
    /\ AllResponses(LAMBDA r : r.success /\ r.eligible_ads = <<>>) )
  => callbacks = <<Callback(TRUE, <<>>)>>

\* C3: a creative-store query that reports failure ends the request with
\* allowed = false and an empty result, and no further tier is queried.
C3_CreativeStoreFailureIsReported ==
  (pc = "done" /\ \E i \in 1..Len(responses) : ~responses[i].success) =>
    /\ callbacks = <<Callback(FALSE, <<>>)>>
    /\ \A i \in 1..Len(responses) : ~responses[i].success => i = Len(responses)

\* C4: when GetAll reports failure the callback receives allowed = false and
\* an empty result, and the request queries neither the browsing history nor
\* the creative store, nor the ad-event store again.
C4_AdEventFailureEndsTheRequest ==
  (pc \notin {"idle", "ad_events"} /\ ~ad_events_success) =>
    /\ pc = "done"
    /\ callbacks = <<Callback(FALSE, <<>>)>>
    /\ calls = <<Call("ad_events", "none", <<>>)>>
    /\ responses = <<>>

C4_Witness ==
  pc = "done" /\ ~ad_events_success /\ entry = "segments" /\ segments # <<>>

\* C5: for every non-empty segments list, hierarchical or flat, when all
\* lookups succeed and the parent-child and parent tiers yield no eligible
\* ads, the untargeted tier is queried and its eligible ads are returned
\* with allowed = true.
C5_FallsBackToUntargeted ==
  ( /\ pc = "done" /\ entry = "segments" /\ segments # <<>>
    /\ ad_events_success
    /\ AllResponses(LAMBDA r : r.success)
    /\ AllResponses(LAMBDA r : r.tier # "untargeted" => r.eligible_ads = <<>>) )
  => /\ responses # <<>>
     /\ Last(responses).tier = "untargeted"
     /\ Last(CreativeCalls) = Call("creative", "untargeted", <<kUntargeted>>)
     /\ callbacks = <<Callback(TRUE, Last(responses).eligible_ads)>>

\* C6: when the parent-child tier yields no eligible ads, the parent tier is
\* queried with GetParentSegments of the caller's segments, whatever
\* segments the store returned, and its eligible ads are returned when
\* non-empty.  Stated for segments lists that differ from their parents
\* (flat lists never reach the parent query).
C6_ParentTierUsesCallerSegments ==
  ( /\ entry = "segments"
    /\ GetParentSegments(segments) # segments
    /\ Len(responses) >= 1
    /\ responses[1].tier = "parent_child"
    /\ responses[1].eligible_ads = <<>> )
  => /\ Len(CreativeCalls) >= 2
     /\ CreativeCalls[2] = Call("creative", "parent", GetParentSegments(segments))
     /\ (Len(responses) >= 2 /\ responses[2].eligible_ads # <<>>)
          => callbacks = <<Callback(TRUE, responses[2].eligible_ads)>>

\* C7: with an empty segments list, once the ad events have arrived,
\* GetForSegments issues exactly one creative-store query, for the
\* untargeted segment, never one for the parent-child or parent tier, and
\* calls back with allowed = true and that tier's eligible ads.
C7_EmptySegmentsGoStraightToUntargeted ==
  (entry = "segments" /\ segments = <<>>) =>
    /\ \A i \in 1..Len(CreativeCalls) :
         CreativeCalls[i] = Call("creative", "untargeted", <<kUntargeted>>)
    /\ Len(CreativeCalls) <= 1
    /\ (pc = "done" /\ ad_events_success) =>
         /\ Len(CreativeCalls) = 1
         /\ Len(responses) = 1
         /\ responses[1].tier = "untargeted"
         /\ callbacks = <<Callback(TRUE, responses[1].eligible_ads)>>

C7_Witness ==
  /\ pc = "done" /\ entry = "segments" /\ segments = <<>>
  /\ Len(callbacks) = 1
  /\ callbacks[1].was_allowed
  /\ callbacks[1].ads # <<>>

\* C8: a list of exactly one ad that no exclusion rule excludes comes out of
\* frequency capping unchanged, for every last-served ad and every
\* creative_instance_id.
C8_SingleAdIsKept ==
  AllResponses(LAMBDA r :
    (Len(r.ads) = 1 /\ ~ShouldExcludeAd(r.ads[1], ad_events, history))
      => r.capped = r.ads)

\* C9: in FilterIneligibleAds, when at most one ad survives the seen-advertiser
\* and seen-ad dedup, ShouldCapLastServedAd is false and a sole survivor that
\* is the ad given to SetLastServedAd is kept by frequency capping.
C9_SoleSurvivorIsNotCapped ==
  AllResponses(LAMBDA r :
    (r.tier # "dimensions" /\ r.ads # <<>> /\ Len(r.deduped) <= 1) =>
      /\ ~r.should_cap
      /\ ( /\ r.deduped[1] = r.last
           /\ r.last \in ServedAds
           /\ ~ShouldExcludeAd(r.deduped[1], ad_events, history) )
         => r.capped = r.deduped)

C11_EligibleAdIsAlwaysChosen ==
  (pc = "done" /\ entry = "predictor") =>
    AllResponses(LAMBDA r :
      (r.tier = "dimensions" /\ r.eligible_ads # <<>>) =>
        /\ Len(callbacks) = 1
        /\ callbacks[1].was_allowed
        /\ Len(callbacks[1].ads) = 1
        /\ callbacks[1].ads[1] \in Range(r.eligible_ads))

\* several ads are eligible, every one of them scores zero under every
\* weight vector, and one of them was chosen
C11_Witness ==
  /\ pc = "done" /\ entry = "predictor"
  /\ Len(responses) = 1
  /\ Len(responses[1].eligible_ads) >= 2
  /\ \A weights \in AdPredictorWeights :
       LET ads_with_features ==
             ComputePredictorFeaturesAndScores(
               GroupEligibleAdsByCreativeInstanceId(responses[1].eligible_ads),
               ad_events, interest_segments, intent_segments, weights)
       IN  \A id \in DOMAIN ads_with_features : ads_with_features[id].score = 0
  /\ callbacks = <<Callback(TRUE, <<Last(responses[1].eligible_ads)>>)>>

\* C12: FilterIneligibleAds applied to its own result returns that result.
C12_FilterIneligibleAdsIsIdempotent ==
  (Len(result) = 2 /\ result[2].function = "FilterIneligibleAds") =>
    result[2].returned = result[1].returned

\* the ids of the list are pairwise different
HasUniqueIds(ads) ==
  \A i, j \in 1..Len(ads) : ads[i] = ads[j] => i = j

\* returned holds elements of ads only, each at most once, in their order
IsFilteredCopyOf(returned, ads) ==
  returned = SelectSeq(ads, LAMBDA id : id \in Range(returned))

\* C13: FilterIneligibleAds and ApplyFrequencyCapping are given a list that
\* stays as it was, and return a list whose elements are elements of that
\* list: nothing is added or duplicated, unique ids stay unique.
C13_PipelineFiltersIntoNewLists ==
  /\ HasUniqueIds(args.ads)
  /\ \A i \in 1..Len(result) :
       /\ i = 1 => result[i].ads = args.ads
       /\ i > 1 => result[i].ads = result[i - 1].returned
       /\ IsFilteredCopyOf(result[i].returned, result[i].ads)
       /\ HasUniqueIds(result[i].returned)

\* FilterIneligibleAds dropped the last-served ad and kept another ad
C13_Witness ==
  /\ Len(result) = 1
  /\ result[1].function = "FilterIneligibleAds"
  /\ last_served_creative_ad_ \in Range(result[1].ads)
  /\ last_served_creative_ad_ \notin Range(result[1].returned)
  /\ result[1].returned # <<>>
  /\ Len(result[1].returned) < Len(args.ads)

\* C14: a step changes the last-served ad only if it is a SetLastServedAd
\* step, and after SetLastServedAd(x) the last-served ad is x.
C14_OnlySetLastServedAdWritesLastServedAd ==
  [][ /\ (last_served_creative_ad_' # last_served_creative_ad_) =>
           \E creative_ad \in ServedAds : SetLastServedAd(creative_ad)
      /\ \A creative_ad \in ServedAds :
           SetLastServedAd(creative_ad) => last_served_creative_ad_' = creative_ad
    ]_vars

\* a request delivered ads other than the last-served one, which is still
\* the one SetLastServedAd stored
C14_Witness ==
  /\ pc = "done"
  /\ last_served_creative_ad_ \in ServedAds
  /\ callbacks # <<>>
  /\ callbacks[1].ads # <<>>
  /\ last_served_creative_ad_ \notin Range(callbacks[1].ads)

\* a collaborator (ad-event store, browsing history, creative store) invokes
\* the completion callback the request is waiting for
CollaboratorAnswers ==
  \/ \E success \in BOOLEAN, events \in AdEventLists : OnGetAllAdEvents(success, events)
  \/ \E browsing_history \in BrowsingHistoryLists :
       OnGetBrowsingHistoryForSegments(browsing_history)
  \/ \E browsing_history \in BrowsingHistoryLists :
       OnGetBrowsingHistoryForPredictor(browsing_history)
  \/ \E answer \in PendingAnswers : \E paced \in SUBSET Range(answer.ads) :
       \/ OnGetForParentChildSegments(answer, paced)
       \/ OnGetForParentSegments(answer, paced)
       \/ OnGetForUntargeted(answer, paced)
  \/ \E answer \in DimensionsAnswers, weights \in AdPredictorWeights :
       OnGetForDimensions(answer, weights)

\* C15: a request invokes its completion callback exactly once.  While it is
\* in flight the callback has not been invoked, exactly the collaborator call
\* it is waiting for is outstanding and that collaborator's answer is
\* handled; a request issues at most five collaborator calls; once it is over
\* the callback has been invoked once.
C15_CallbackInvokedExactlyOnce ==
  /\ Len(callbacks) <= 1
  /\ (pc = "done") <=> (Len(callbacks) = 1)
  /\ (pc \notin {"idle", "done"}) =>
       /\ calls # <<>>
       /\ Len(calls) <= 5
       /\ Last(calls).store =
            (IF pc \in {"ad_events", "history"} THEN pc ELSE "creative")
       /\ Last(calls).store = "creative" => Last(calls).tier = pc
       /\ ENABLED CollaboratorAnswers

\* a request that issued five collaborator calls and cascaded through the
\* three tiers is over, with one callback that delivers no ad
C15_Witness ==
  /\ pc = "done" /\ entry = "segments"
  /\ Len(calls) = 5
  /\ Len(responses) = 3
  /\ callbacks = <<Callback(TRUE, <<>>)>>

\* C16: GetTopParentSegments returns the top 3 of the parent-level form of
\* the text-classification segments (GetParentSegments applied to them) and
\* GetTopParentChildSegments the top 3 of the segments as they are, each
\* followed by the bandit and the purchase-intent segments.
C16_ParentVariantUsesParentSegments ==
  \A i \in 1..Len(result) :
    LET text == args.segments.text_classification_segments
        form == IF result[i].function = "GetTopParentSegments"
                THEN GetParentSegments(text) ELSE text
    IN  result[i].returned =
          FilterSegments(form, kTopTextClassificationSegmentCount,
                         args.filtered_segments)
            \o args.segments.epsilon_greedy_bandit_segments
            \o args.segments.purchase_intent_segments

\* some segment of the list, or its parent when parents is TRUE, is a segment
\* of the ad
Matches(ad_predictor, segs, parents) ==
  \E i \in 1..Len(segs) : \E j \in 1..Len(ad_predictor.segments) :
    ad_predictor.segments[j] = (IF parents THEN GetParentSegment(segs[i]) ELSE segs[i])

\* C17: ComputePredictorFeatures sets the intent-child flag iff the ad's
\* segments intersect the intent segments, the interest-child flag iff they
\* intersect the interest segments, and the intent-parent and interest-parent
\* flags iff they intersect the parents of the interest segments; the two
\* parent flags are equal and other intent segments change the intent-child
\* flag only.
C17_FeatureFlags ==
  (result # <<>> /\ args.function = "ComputePredictorFeatures") =>
    LET ad == args.ad_predictor
        features == result[1]
    IN  /\ features.does_match_intent_child_segments
             <=> Matches(ad, args.intent_segments, FALSE)
        /\ features.does_match_interest_child_segments
             <=> Matches(ad, args.interest_segments, FALSE)
        /\ features.does_match_intent_parent_segments
             <=> Matches(ad, args.interest_segments, TRUE)
        /\ features.does_match_interest_parent_segments
             <=> Matches(ad, args.interest_segments, TRUE)
        /\ features.does_match_intent_parent_segments
             = features.does_match_interest_parent_segments
        /\ \A intent \in UserSegmentLists :
             [ComputePredictorFeatures(ad, args.ad_events, args.interest_segments,
                                       intent)
                EXCEPT !.does_match_intent_child_segments =
                         features.does_match_intent_child_segments] = features

\* the parent of an intent segment is a segment of the ad, no parent of an
\* interest segment is, and both parent flags are false
C17_Witness ==
  /\ result # <<>> /\ args.function = "ComputePredictorFeatures"
  /\ Matches(args.ad_predictor, args.intent_segments, TRUE)
  /\ ~Matches(args.ad_predictor, args.interest_segments, TRUE)
  /\ args.interest_segments # <<>>
  /\ ~result[1].does_match_intent_parent_segments
  /\ ~result[1].does_match_interest_parent_segments

\* the weights with the weight of one slot set to zero
ZeroedAt(weights, index) == [weights EXCEPT ![index + 1] = 0]

\* what the weight of a slot adds to the score ComputePredictorScore returned
AddedBy(index) ==
  result[1] - ComputePredictorScore(args.ad_predictor, ZeroedAt(args.weights, index))

\* the weight of a slot as it shows in the score of the ad: in score units,
\* multiplied by the ad's ptr as the whole score is
InScore(index) ==
  WeightAt(args.weights, index) * kHoursPerDay * PriorityUnit
    * CreativeAds[args.ad_predictor.creative_ad].ptr

ScoreReturned == result # <<>> /\ args.function = "ComputePredictorScore"

\* C18: in each of the intent and interest categories the child-match
\* weight is added when the child flag is true, the parent-match weight only
\* when the child flag is false and the parent flag true, nothing when both
\* are false; a category's flags decide that category's weights only.
C18_ChildMatchWinsInEachCategory ==
  ScoreReturned =>
    LET ad == args.ad_predictor
    IN  /\ AddedBy(kMatchesIntentChildSegment) =
             (IF ad.does_match_intent_child_segments
              THEN InScore(kMatchesIntentChildSegment) ELSE 0)
        /\ AddedBy(kMatchesIntentParentSegment) =
             (IF ~ad.does_match_intent_child_segments
                 /\ ad.does_match_intent_parent_segments
              THEN InScore(kMatchesIntentParentSegment) ELSE 0)
        /\ AddedBy(kMatchesInterestChildSegment) =
             (IF ad.does_match_interest_child_segments
              THEN InScore(kMatchesInterestChildSegment) ELSE 0)
        /\ AddedBy(kMatchesInterestParentSegment) =
             (IF ~ad.does_match_interest_child_segments
                 /\ ad.does_match_interest_parent_segments
              THEN InScore(kMatchesInterestParentSegment) ELSE 0)

\* both intent flags are true and only the child weight was added; the
\* interest child flag is false and the interest parent weight was added
C18_Witness ==
  /\ ScoreReturned
  /\ args.ad_predictor.does_match_intent_child_segments
  /\ args.ad_predictor.does_match_intent_parent_segments
  /\ ~args.ad_predictor.does_match_interest_child_segments
  /\ args.ad_predictor.does_match_interest_parent_segments
  /\ InScore(kMatchesIntentParentSegment) > 0
  /\ AddedBy(kMatchesIntentParentSegment) = 0
  /\ AddedBy(kMatchesIntentChildSegment) > 0
  /\ AddedBy(kMatchesInterestParentSegment) > 0

\* hours since the most recent of the ad events that satisfy seen, and 0
\* when there is none
HoursSinceLastSeen(events, seen(_)) ==
  LET hours == { events[i].hours_ago : i \in { j \in 1..Len(events) : seen(events[j]) } }
  IN  IF hours = {} THEN 0
      ELSE CHOOSE h \in hours : \A other \in hours : h <= other

\* C19: each of the two recency terms adds weight * hours_ago / 24 when
\* hours_ago is at most 24 and nothing when it exceeds 24; an ad or an
\* advertiser that was never seen gets hours_ago = 0, which adds nothing.
C19_RecencyTerms ==
  /\ ScoreReturned =>
       LET ad == args.ad_predictor
       IN  /\ ad.ad_last_seen_hours_ago <= kHoursPerDay =>
                AddedBy(kAdLastSeenInHours) * kHoursPerDay =
                  InScore(kAdLastSeenInHours) * ad.ad_last_seen_hours_ago
           /\ ad.ad_last_seen_hours_ago > kHoursPerDay =>
                AddedBy(kAdLastSeenInHours) = 0
           /\ ad.advertiser_last_seen_hours_ago <= kHoursPerDay =>
                AddedBy(kAdvertiserLastSeenInHours) * kHoursPerDay =
                  InScore(kAdvertiserLastSeenInHours) * ad.advertiser_last_seen_hours_ago
           /\ ad.advertiser_last_seen_hours_ago > kHoursPerDay =>
                AddedBy(kAdvertiserLastSeenInHours) = 0
           /\ ad.ad_last_seen_hours_ago = 0 => AddedBy(kAdLastSeenInHours) = 0
           /\ ad.advertiser_last_seen_hours_ago = 0 =>
                AddedBy(kAdvertiserLastSeenInHours) = 0
  /\ (result # <<>> /\ args.function = "ComputePredictorFeatures") =>
       LET id == args.ad_predictor.creative_ad
       IN  /\ result[1].ad_last_seen_hours_ago =
                HoursSinceLastSeen(args.ad_events,
                                   LAMBDA e : e.creative_instance_id = id)
           /\ result[1].advertiser_last_seen_hours_ago =
                HoursSinceLastSeen(args.ad_events,
                  LAMBDA e : e.advertiser_id = CreativeAds[id].advertiser_id)

\* the ad was seen two hours ago and its recency weight shows in the score;
\* the advertiser was seen more than a day ago and its weight does not
C19_Witness ==
  /\ ScoreReturned
  /\ args.ad_predictor.ad_last_seen_hours_ago = 2
  /\ args.ad_predictor.advertiser_last_seen_hours_ago > kHoursPerDay
  /\ InScore(kAdvertiserLastSeenInHours) > 0
  /\ AddedBy(kAdLastSeenInHours) > 0
  /\ AddedBy(kAdvertiserLastSeenInHours) = 0

\* C20: the priority term is weight / priority when priority > 0, that is
\* the full weight at priority 1 and strictly less at a larger priority, and
\* nothing is added when priority = 0.  (The term shows in the score
\* multiplied by ptr, so "strictly less" is read on the ads of positive ptr.)
C20_PriorityTermStrictlyDecreases ==
  ScoreReturned =>
    LET ad == CreativeAds[args.ad_predictor.creative_ad]
    IN  /\ ad.priority > 0 =>
             AddedBy(kPriority) * ad.priority = InScore(kPriority)
        /\ (ad.priority > 1 /\ ad.ptr > 0) => AddedBy(kPriority) < InScore(kPriority)
        /\ ad.priority = 0 => AddedBy(kPriority) = 0

\* C20 (amended): as above, with "strictly less at a larger priority" for a
\* positive weight; a zero weight adds zero at every priority.
C20_PriorityTerm ==
  ScoreReturned =>
    LET ad == CreativeAds[args.ad_predictor.creative_ad]
    IN  /\ ad.priority > 0 =>
             AddedBy(kPriority) * ad.priority = InScore(kPriority)
        /\ (ad.priority > 1 /\ ad.ptr > 0 /\ WeightAt(args.weights, kPriority) > 0) =>
             AddedBy(kPriority) < InScore(kPriority)
        /\ WeightAt(args.weights, kPriority) = 0 => AddedBy(kPriority) = 0
        /\ ad.priority = 0 => AddedBy(kPriority) = 0

\* an ad of priority 2 got half of a positive priority weight
C20_Witness ==
  /\ ScoreReturned
  /\ CreativeAds[args.ad_predictor.creative_ad].priority = 2
  /\ WeightAt(args.weights, kPriority) > 0
  /\ AddedBy(kPriority) > 0
  /\ AddedBy(kPriority) * 2 = InScore(kPriority)

\* the slots of the weight vector
AdPredictorWeightIndexes == kMatchesIntentChildSegment..kPriority

RECURSIVE SumOfAddedBy(_)
\* what the weights of the slots 0..index add to the returned score
SumOfAddedBy(index) ==
  IF index < 0 THEN 0 ELSE AddedBy(index) + SumOfAddedBy(index - 1)

\* C21: the score ComputePredictorScore returns is the sum of what the match,
\* recency and priority weights add, each multiplied by ptr; with weights,
\* hours, priority and ptr that are not negative it is not negative, and it
\* is 0 when ptr = 0.
C21_ScoreIsWeightedSumTimesPtr ==
  ScoreReturned =>
    LET ad == CreativeAds[args.ad_predictor.creative_ad]
    IN  /\ result[1] = SumOfAddedBy(kPriority)
        /\ \A index \in AdPredictorWeightIndexes :
             /\ AddedBy(index) >= 0
             /\ AddedBy(index) <= InScore(index)
        /\ result[1] >= 0
        /\ ad.ptr = 0 => result[1] = 0
        /\ ComputePredictorScore(args.ad_predictor, <<0, 0, 0, 0, 0, 0, 0>>) = 0

\* an ad of ptr 0 that matches, was seen and has a priority scores 0 under
\* positive weights
C21_Witness ==
  /\ ScoreReturned
  /\ CreativeAds[args.ad_predictor.creative_ad].ptr = 0
  /\ CreativeAds[args.ad_predictor.creative_ad].priority > 0
  /\ args.ad_predictor.does_match_intent_child_segments
  /\ args.ad_predictor.ad_last_seen_hours_ago = 2
  /\ \A index \in AdPredictorWeightIndexes : WeightAt(args.weights, index) > 0
  /\ result[1] = 0

\* the segment holds a "-"
HasSeparator(segment) == \E k \in 1..Len(segment) : segment[k] = "-"

\* parent is the part of the segment before its first "-", the whole segment
\* when it has none
IsParentOf(parent, segment) ==
  /\ ~HasSeparator(parent)
  /\ Len(parent) <= Len(segment)
  /\ parent = SubSeq(segment, 1, Len(parent))
  /\ Len(parent) < Len(segment) => segment[Len(parent) + 1] = "-"

\* C22: GetParentSegments returns a list of the length of its argument whose
\* i-th entry is the i-th segment cut before its first "-" (unchanged when it
\* has none), duplicates kept; it returns its argument exactly when no
\* segment holds a "-".
C22_GetParentSegments ==
  (result # <<>> /\ result[1].function = "GetParentSegments") =>
    LET segs == args.segments.text_classification_segments
        parents == result[1].returned
    IN  /\ Len(parents) = Len(segs)
        /\ \A i \in 1..Len(segs) :
             /\ IsParentOf(parents[i], segs[i])
             /\ ~HasSeparator(segs[i]) => parents[i] = segs[i]
        /\ (parents = segs) <=> (\A i \in 1..Len(segs) : ~HasSeparator(segs[i]))

\* two segments of the same parent, one with two separators, give that
\* parent twice
C22_Witness ==
  /\ result # <<>> /\ result[1].function = "GetParentSegments"
  /\ Len(result[1].returned) >= 3
  /\ \E i, j \in 1..Len(result[1].returned) :
       /\ i < j
       /\ result[1].returned[i] = result[1].returned[j]
       /\ args.segments.text_classification_segments[i] = FinanceBanking
       /\ args.segments.text_classification_segments[j] = FinanceBankingLoans

\* C23: FilterIneligibleAds applied to an empty list returns an empty list,
\* whatever the ad events, the browsing history and the last-served ad, and
\* returns it before any stage runs: the seen memory stays as it was.
C23_EmptyListIsReturnedAtOnce ==
  [][ ( /\ result = <<>> /\ args.ads = <<>>
        /\ result' # <<>> /\ result'[1].function = "FilterIneligibleAds" ) =>
      ( /\ result'[1].returned = <<>>
        /\ seen_ads' = seen_ads
        /\ seen_advertisers' = seen_advertisers ) ]_vars

\* an engine with a last-served ad and a seen ad, ad events and a browsing
\* history filtered the empty list
C23_Witness ==
  /\ result # <<>> /\ result[1].function = "FilterIneligibleAds"
  /\ result[1].ads = <<>> /\ result[1].returned = <<>>
  /\ last_served_creative_ad_ \in ServedAds
  /\ seen_ads # {} /\ seen_advertisers # {}
  /\ args.ad_events # <<>> /\ args.browsing_history # <<>>

\* C24: when FilterIneligibleAds is given two or more ads, its result holds
\* no ad with the id of the last-served ad, and the frequency-capping stage
\* keeps, in order, exactly the ads that no exclusion rule excludes and that
\* are not the last-served ad.
C24_LastServedAdIsCappedInLongerLists ==
  AllResponses(LAMBDA r :
    (r.tier # "dimensions" /\ Len(r.ads) >= 2) =>
      /\ r.last \notin Range(r.eligible_ads)
      /\ r.capped =
           SelectSeq(r.deduped, LAMBDA id :
             /\ ~ShouldExcludeAd(id, ad_events, history)
             /\ id # r.last)
      /\ Range(r.eligible_ads) \subseteq Range(r.capped))

\* a response of two ads held the last-served ad; it was capped and the
\* other ad was kept
C24_Witness ==
  /\ responses # <<>>
  /\ Last(responses).tier # "dimensions"
  /\ Len(Last(responses).ads) >= 2
  /\ Last(responses).last \in ServedAds
  /\ Last(responses).last \in Range(Last(responses).deduped)
  /\ Last(responses).last \notin Range(Last(responses).capped)
  /\ Last(responses).eligible_ads # <<>>

\* C25: in a request of either entry point the first collaborator call goes
\* to the ad-event store, the browsing history is asked for second and only
\* once the ad events have arrived with success, and a creative-store query
\* is issued only after that, once the browsing history has arrived.
C25_CollaboratorsAreQueriedInOrder ==
  /\ pc \notin {"idle"} => (calls # <<>> /\ calls[1].store = "ad_events")
  /\ \A i \in 1..Len(calls) :
       /\ calls[i].store = "ad_events" => i = 1
       /\ calls[i].store = "history" =>
            /\ i = 2
            /\ ad_events_success
            /\ pc # "ad_events"
       /\ calls[i].store = "creative" =>
            /\ i >= 3
            /\ calls[2].store = "history"
            /\ ad_events_success
            /\ pc \notin {"ad_events", "history"}

\* a predictor request and its three collaborator calls
C25_Witness ==
  /\ pc = "done" /\ entry = "predictor"
  /\ Len(calls) = 3
  /\ calls[3].store = "creative"
  /\ Len(responses) = 1

\* the segments of the list for which ShouldFilterSegment is false
Survivors(segs, filtered_segments) ==
  SelectSeq(segs, LAMBDA segment : ~ShouldFilterSegment(segment, filtered_segments))

\* C26: FilterSegments(segments, max_count) returns, for every max_count >= 0,
\* the first max_count segments for which ShouldFilterSegment is false, in
\* input order, or all of them when they are fewer: at most max_count
\* segments.
C26_FilterSegmentsReturnsAtMostMaxCount ==
  (result # <<>> /\ result[1].function = "FilterSegments") =>
    LET survivors == Survivors(args.segments.text_classification_segments,
                               args.filtered_segments)
        max_count == result[1].max_count
    IN  /\ Len(result[1].returned) <= max_count
        /\ result[1].returned =
             SubSeq(survivors, 1,
                    IF Len(survivors) < max_count THEN Len(survivors) ELSE max_count)

\* the first segments of the list, at most kTopTextClassificationSegmentCount
TopOf(segs) ==
  SubSeq(segs, 1, IF Len(segs) < kTopTextClassificationSegmentCount
                  THEN Len(segs) ELSE kTopTextClassificationSegmentCount)

\* C27: GetTopParentChildSegments and GetTopParentSegments return at most 3
\* text-classification segments (in either form) that the filter-list lookup
\* lets through, then every bandit segment, then every purchase-intent
\* segment, the last two lists as they are.
C27_TopSegmentsAreConcatenated ==
  (result # <<>> /\ result[1].function \in {"GetTopParentChildSegments",
                                           "GetTopParentSegments"}) =>
    LET text == args.segments.text_classification_segments
        bandit == args.segments.epsilon_greedy_bandit_segments
        intent == args.segments.purchase_intent_segments
    IN  /\ \E form \in {text, GetParentSegments(text)} :
             result[1].returned =
               TopOf(Survivors(form, args.filtered_segments)) \o bandit \o intent
        /\ Len(result[1].returned)
             <= kTopTextClassificationSegmentCount + Len(bandit) + Len(intent)

\* four text-classification segments pass the filter and three are returned,
\* followed by a bandit segment and by purchase-intent segments of which one
\* is a filtered segment
C27_Witness ==
  /\ result # <<>> /\ result[1].function = "GetTopParentSegments"
  /\ Len(Survivors(args.segments.text_classification_segments,
                   args.filtered_segments)) > kTopTextClassificationSegmentCount
  /\ args.segments.epsilon_greedy_bandit_segments # <<>>
  /\ Range(args.segments.purchase_intent_segments) \cap args.filtered_segments # {}
  /\ Len(result[1].returned) =
       kTopTextClassificationSegmentCount
         + Len(args.segments.epsilon_greedy_bandit_segments)
         + Len(args.segments.purchase_intent_segments)

\* C30: the DCHECK(!segments.empty()) at the entry of
\* GetForParentChildSegments and of GetForParentSegments holds on every path
\* from GetForSegments, whatever segments the creative store hands back.
C30_SegmentsAreNeverEmptyAtTierEntry ==
  dcheck_ok

\* C28: a request caps against the last-served ad held when the response of
\* a tier is processed: when SetLastServedAd ran after the request was
\* issued, a response of two or more ads is capped against the new value,
\* which is not in the tier's result.
C28_CapsAgainstLastServedAdAtResponse ==
  \A i \in RequestIds : \A n \in 1..Len(requests[i].responses) :
    LET response == requests[i].responses[n]
    IN  ( /\ response.last # requests[i].last_at_call
          /\ Len(response.ads) >= 2 )
        => /\ response.capped =
                ApplyFrequencyCapping(response.deduped, response.last,
                                      requests[i].ad_events, requests[i].history)
           /\ response.last \notin Range(response.eligible_ads)

\* a parent-child response of two ads processed after SetLastServedAd("a")
\* ran in flight: "a" entered the capping stage and is not in the result
C28_Witness ==
  \E i \in RequestIds : \E n \in 1..Len(requests[i].responses) :
    LET response == requests[i].responses[n]
    IN  /\ requests[i].last_at_call = CreativeAdInfo
        /\ response.last = "a"
        /\ Len(response.ads) >= 2
        /\ "a" \in Range(response.deduped)
        /\ "a" \notin Range(response.capped)
        /\ response.eligible_ads # <<>>

\* SetLastServedAd did not change the last-served ad between the issue of
\* request i and its responses
NoSetLastServedAdInFlight(i) ==
  \A n \in 1..Len(requests[i].responses) :
    requests[i].responses[n].last = requests[i].last_at_call

\* C29: with two GetForSegments requests in flight, no SetLastServedAd in
\* between and the same collaborator responses, each request receives the
\* callback it receives when it runs alone.
C29_RequestsDoNotInterfere ==
  \A i \in RequestIds :
    ( /\ requests[i].pc = "done"
      /\ NoSetLastServedAdInFlight(i) )
    => requests[i].callbacks =
         << GetForSegmentsAlone(requests[i].segments, requests[i].last_at_call,
                                requests[i].seen_at_call, requests[i].ad_events,
                                requests[i].history) >>

====
